---- MODULE Spec2Model ----
(***************************************************************************)
(* js-worker-search: the synchronous search engine (SearchUtility), its     *)
(* inverted index (SearchIndex), and the proxy that runs the engine in a    *)
(* web worker (SearchWorkerLoader), as a state machine.                     *)
(*                                                                          *)
(* JavaScript strings are TLA+ strings.  A uid is a JavaScript primitive,   *)
(* written <<type, text>>: Str("A") is the string 'A', Num("1") the number  *)
(* 1.  A JavaScript object used as a map is a function from its own         *)
(* property keys (strings) to values; every such object inherits from       *)
(* Object.prototype, whose enumerable (program-added) properties are the    *)
(* variable objectPrototype.  Enumeration order of an object's keys is not  *)
(* modelled: a result array lists its elements in a fixed arbitrary order.  *)
(***************************************************************************)
EXTENDS Integers, Sequences, FiniteSets, TLC

VARIABLES
    indexMode,          \* SearchUtility._indexMode
    tokenizePattern,    \* SearchUtility._tokenizePattern: the delimiter class C of /[C]+/
    caseSensitive,      \* SearchUtility._caseSensitive
    uids,               \* SearchUtility._uids: its own property keys (every value is true)
    tokenToUidMap,      \* SearchIndex.tokenToUidMap: own token -> (own key -> uid value)
    objectPrototype,    \* enumerable properties the program has put on Object.prototype
    result,             \* what the last call returned or threw
    calls,              \* history: for each indexDocument call made so far, its uid, the
                        \* index mode in force and the field tokens of its text
    fault,              \* the traversal failure met by the last indexDocument call, if any
    callbackQueue,      \* SearchWorkerLoader.callbackQueue: callbackIds, oldest first
    callbackIdMap,      \* SearchWorkerLoader.callbackIdMap: callbackId -> its data object
    workerMessages,     \* messages posted to the worker and not yet handled, oldest first
    searchUtility,      \* the worker's own engine (var searchUtility of the worker bundle)
    workerEvents,       \* events the worker has raised that the loader has not yet handled
    promises,           \* for each promise SearchWorkerLoader.search has returned, in call
                        \* order: its query and what SearchUtility gave for the same call
    settled             \* the resolve / reject calls made on those promises, in order

engineVars == <<indexMode, tokenizePattern, caseSensitive, uids, tokenToUidMap,
                objectPrototype, result, calls>>

loaderVars == <<callbackQueue, callbackIdMap, workerMessages, searchUtility,
                workerEvents, promises, settled>>

vars == <<indexMode, tokenizePattern, caseSensitive, uids, tokenToUidMap,
          objectPrototype, result, calls, fault, callbackQueue, callbackIdMap,
          workerMessages, searchUtility, workerEvents, promises, settled>>

-----------------------------------------------------------------------------
(* Bounds and input sets *)

MaxCalls == 2

\* most elements a token's traversal has pushed when it is made to fail
MaxPushed == 2

\* most search calls made on one SearchWorkerLoader
MaxSearches == 2

\* most messages waiting for the worker when indexDocument posts another
MaxQueued == 3

EXACT_WORDS == "EXACT_WORDS"
PREFIXES == "PREFIXES"
ALL_SUBSTRINGS == "ALL_SUBSTRINGS"
INDEX_MODES == {ALL_SUBSTRINGS, EXACT_WORDS, PREFIXES}

\* setIndexMode takes any string: one value outside INDEX_MODES is offered too.
ModeInputs == INDEX_MODES \cup {"FUZZY"}

WhitespacePattern == {" "}            \* /\s+/
UnderscorePattern == {"_"}            \* /_+/
PatternInputs == {WhitespacePattern, UnderscorePattern}

Str(s) == <<"string", s>>
Num(s) == <<"number", s>>
Undefined == <<"undefined", "">>

\* uids offered to indexDocument: an ordinary string, the empty string (falsy),
\* a number, and a string naming a built-in accessor of Object.prototype.
\* No uid's key is a token of TextInputs.
UidInputs == {Str("X"), Str(""), Num("1"), Str("__proto__")}

TextInputs == {"", " ", "Ab", "Ab b", "__proto__"}

\* queries include one naming a method every object inherits
QueryInputs ==
    TextInputs \cup {"a", "b", "ab", "abb", "b ab", "ab ab", "proto", "constructor"}

\* documents and queries offered to a SearchWorkerLoader and, call for call,
\* to a SearchUtility constructed with the same options
LoaderUidInputs == {Str("X")}
LoaderTextInputs == {"Ab", "b"}
LoaderQueryInputs == {"", "ab", "Ab", "constructor"}

\* errors an injected WorkerClass reports for a search: an Error, and a falsy value
ErrorInputs == {Str("Error"), Str("")}

-----------------------------------------------------------------------------
(* JavaScript primitives *)

\* ToPropertyKey: the string under which obj[v] stores a primitive v.
ToPropertyKey(v) == v[2]

\* ToBoolean(v) = false
Falsy(v) == v \in {Undefined, Str(""), Num("0")}

CharAt(s, i) == SubSeq(s, i, i)

IsWhitespace(c) == c = " "

LowerChar(c) == CASE c = "A" -> "a" [] c = "B" -> "b" [] OTHER -> c

RECURSIVE ToLocaleLowerCase(_)
ToLocaleLowerCase(s) ==
    IF s = "" THEN ""
    ELSE LowerChar(CharAt(s, 1)) \o ToLocaleLowerCase(SubSeq(s, 2, Len(s)))

RECURSIVE TrimStart(_)
TrimStart(s) ==
    IF s # "" /\ IsWhitespace(CharAt(s, 1)) THEN TrimStart(SubSeq(s, 2, Len(s))) ELSE s

RECURSIVE TrimEnd(_)
TrimEnd(s) ==
    IF s # "" /\ IsWhitespace(CharAt(s, Len(s))) THEN TrimEnd(SubSeq(s, 1, Len(s) - 1)) ELSE s

Trim(s) == TrimEnd(TrimStart(s))

\* s with its leading run of delimiter characters removed
RECURSIVE SkipDelimiters(_, _)
SkipDelimiters(s, pattern) ==
    IF s # "" /\ CharAt(s, 1) \in pattern
    THEN SkipDelimiters(SubSeq(s, 2, Len(s)), pattern)
    ELSE s

\* String.prototype.split(/[pattern]+/): the pieces between maximal runs of
\* delimiters, empty pieces included; piece is the piece under construction.
RECURSIVE SplitFrom(_, _, _)
SplitFrom(s, pattern, piece) ==
    IF s = "" THEN <<piece>>
    ELSE IF CharAt(s, 1) \in pattern
         THEN <<piece>> \o SplitFrom(SkipDelimiters(s, pattern), pattern, "")
         ELSE SplitFrom(SubSeq(s, 2, Len(s)), pattern, piece \o CharAt(s, 1))

Split(s, pattern) == SplitFrom(s, pattern, "")

NonEmpty(s) == s # ""

\* The elements of a finite set as an array, each once.
RECURSIVE SetToSeq(_)
SetToSeq(S) ==
    IF S = {} THEN <<>>
    ELSE LET x == CHOOSE y \in S : TRUE IN <<x>> \o SetToSeq(S \ {x})

Range(seq) == {seq[i] : i \in 1..Len(seq)}

-----------------------------------------------------------------------------
(* SearchUtility: sanitize, tokenize, expand *)

Sanitize(string, cs) ==
    IF cs THEN Trim(string) ELSE ToLocaleLowerCase(Trim(string))

Tokenize(text, pattern) == SelectSeq(Split(text, pattern), NonEmpty)

\* the inner loop of _expandAllSubstringTokens for start i: ends j..Len(token)
RECURSIVE SubstringsFrom(_, _, _)
SubstringsFrom(token, i, j) ==
    IF j > Len(token) THEN <<>>
    ELSE <<SubSeq(token, i, j)>> \o SubstringsFrom(token, i, j + 1)

RECURSIVE AllSubstringsFrom(_, _)
AllSubstringsFrom(token, i) ==
    IF i > Len(token) THEN <<>>
    ELSE SubstringsFrom(token, i, i) \o AllSubstringsFrom(token, i + 1)

ExpandAllSubstringTokens(token) == AllSubstringsFrom(token, 1)

\* _expandPrefixTokens whose loop stops one short: proper prefixes only
ExpandProperPrefixTokens(token) == [i \in 1..(Len(token) - 1) |-> SubSeq(token, 1, i)]

ExpandPrefixTokens(token) == [i \in 1..Len(token) |-> SubSeq(token, 1, i)]

\* _expandToken with no default branch: nothing for a mode outside INDEX_MODES
ExpandTokenKnownModes(mode, token) ==
    CASE mode = EXACT_WORDS -> <<token>>
      [] mode = PREFIXES -> ExpandPrefixTokens(token)
      [] mode = ALL_SUBSTRINGS -> ExpandAllSubstringTokens(token)
      [] OTHER -> <<>>

ExpandToken(mode, token) ==
    CASE mode = EXACT_WORDS -> <<token>>
      [] mode = PREFIXES -> ExpandPrefixTokens(token)
      [] OTHER -> ExpandAllSubstringTokens(token)

-----------------------------------------------------------------------------
(* JavaScript objects used as maps *)

\* {}: an object with no own property
EmptyObject == [k \in {} |-> Undefined]

\* obj[key] = v for a primitive v.  Object.prototype.__proto__ is an accessor
\* whose setter ignores a primitive: no own property is created for that key.
PutProperty(obj, key, v) ==
    IF key = "__proto__" THEN obj
    ELSE [k \in DOMAIN obj \cup {key} |-> IF k = key THEN v ELSE obj[k]]

\* for (k in obj): own keys and the enumerable keys inherited from Object.prototype
ForIn(obj, proto) == DOMAIN obj \cup DOMAIN proto

\* obj[key] for an enumerated key: own property first, then Object.prototype
GetProperty(obj, proto, key) ==
    IF key \in DOMAIN obj THEN obj[key]
    ELSE IF key \in DOMAIN proto THEN proto[key]
    ELSE Undefined

\* Object.keys(obj): own keys only, as strings
ObjectKeys(ownKeys) == LET ks == SetToSeq(ownKeys) IN [i \in 1..Len(ks) |-> Str(ks[i])]

-----------------------------------------------------------------------------
(* SearchIndex.  A heap is [map |-> tokenToUidMap, proto |-> objectPrototype]. *)

\* names of the (non-enumerable) function-valued properties every plain object
\* inherits from Object.prototype
ObjectPrototypeMethods ==
    {"constructor", "hasOwnProperty", "isPrototypeOf", "propertyIsEnumerable",
     "toLocaleString", "toString", "valueOf"}

\* this.tokenToUidMap[token] is a function: the token names an inherited method
\* and has no own entry (indexDocument creates none, the lookup being truthy)
LooksUpFunction(heap, token) ==
    token \notin DOMAIN heap.map /\ token \in ObjectPrototypeMethods

\* this.tokenToUidMap[token] || {} : the own entry; Object.prototype itself for
\* '__proto__' (the inherited getter; never an own entry); otherwise {}.
\* The result is the own properties of the object read.
UidMapOf(heap, token) ==
    IF token \in DOMAIN heap.map THEN heap.map[token]
    ELSE IF token = "__proto__" THEN heap.proto
    ELSE EmptyObject

\* SearchIndex.indexDocument(token, uid) without its guard
\* if (!this.tokenToUidMap[token]): the token's uid map is created anew on
\* every call
SearchIndexIndexDocumentOverwrite(heap, token, uid) ==
    [heap EXCEPT !.map =
        [t \in DOMAIN heap.map \cup {token} |->
            IF t = token THEN PutProperty(EmptyObject, ToPropertyKey(uid), uid)
            ELSE heap.map[t]]]

\* SearchIndex.indexDocument(token, uid) as a toggle: a uid already stored
\* under the token is removed instead of stored again
SearchIndexIndexDocumentToggle(heap, token, uid) ==
    LET key == ToPropertyKey(uid)
        old == UidMapOf(heap, token)
    IN [heap EXCEPT !.map =
           [t \in DOMAIN heap.map \cup {token} |->
               IF t # token THEN heap.map[t]
               ELSE IF key \in DOMAIN old THEN [k \in DOMAIN old \ {key} |-> old[k]]
               ELSE PutProperty(old, key, uid)]]

\* SearchIndex.indexDocument(token, uid)
SearchIndexIndexDocument(heap, token, uid) ==
    LET key == ToPropertyKey(uid) IN
    IF token \notin DOMAIN heap.map /\ token = "__proto__"
    THEN \* !this.tokenToUidMap[token] is false: the write lands on Object.prototype
         [heap EXCEPT !.proto = PutProperty(heap.proto, key, uid)]
    ELSE IF LooksUpFunction(heap, token)
    THEN \* the write lands on the built-in function, which no search reads
         heap
    ELSE [heap EXCEPT !.map =
            [t \in DOMAIN heap.map \cup {token} |->
                IF t = token THEN PutProperty(UidMapOf(heap, token), key, uid)
                ELSE heap.map[t]]]

\* tokens.forEach of SearchIndex.search from the i-th token on; uidMap is the
\* own properties of the local uidMap
RECURSIVE Intersect(_, _, _, _, _)
Intersect(heap, tokens, i, initialized, uidMap) ==
    IF i > Len(tokens) THEN uidMap
    ELSE LET currentUidMap == UidMapOf(heap, tokens[i]) IN
         IF ~initialized
         THEN Intersect(heap, tokens, i + 1, TRUE,
                  [k \in ForIn(currentUidMap, heap.proto) |->
                      GetProperty(currentUidMap, heap.proto, k)])
         ELSE Intersect(heap, tokens, i + 1, TRUE,
                  [k \in {u \in DOMAIN uidMap :
                             ~Falsy(GetProperty(currentUidMap, heap.proto, u))} |->
                      uidMap[k]])

\* SearchIndex.search(tokens) throws a TypeError: the forEach reaches a token
\* whose currentUidMap is not an object
SearchIndexSearchThrows(heap, tokens) ==
    \E i \in 1..Len(tokens) : LooksUpFunction(heap, tokens[i])

\* SearchIndex.search(tokens): the array returned when it does not throw
SearchIndexSearch(heap, tokens) ==
    LET uidMap == Intersect(heap, tokens, 1, FALSE, EmptyObject)
        keys == SetToSeq(ForIn(uidMap, heap.proto))
    IN [i \in 1..Len(keys) |-> GetProperty(uidMap, heap.proto, keys[i])]

\* expandedTokens.forEach(t => searchIndex.indexDocument(t, uid)).  A write for
\* token t changes only the entry of t, or Object.prototype, and no token of
\* the inputs is the key of a uid, so no write changes what a later one reads:
\* the loop's result is the single writes put together.
IndexExpandedTokens(heap, expandedTokens, uid) ==
    LET tokens == Range(expandedTokens)
        After(t) == SearchIndexIndexDocument(heap, t, uid)
        protos == {After(t).proto : t \in tokens} \ {heap.proto}
    IN [map |-> [t \in DOMAIN heap.map \cup UNION {DOMAIN After(t).map : t \in tokens} |->
                    IF t \in tokens /\ t \in DOMAIN After(t).map
                    THEN After(t).map[t] ELSE heap.map[t]],
        proto |-> IF protos = {} THEN heap.proto ELSE CHOOSE q \in protos : TRUE]

\* _expandToken(token) when the traversal of the token throws after `pushed`
\* elements were pushed: the catch block logs, and the array filled so far is
\* returned.  EXACT_WORDS traverses nothing.
ExpandTokenFailing(mode, token, pushed) ==
    IF mode = EXACT_WORDS THEN <<token>>
    ELSE SubSeq(ExpandToken(mode, token), 1, pushed)

\* fieldTokens.forEach(...) from the i-th field token on, when the traversal of
\* the failed-th field token throws after `pushed` elements
RECURSIVE IndexFieldTokensFailing(_, _, _, _, _, _, _)
IndexFieldTokensFailing(heap, mode, fieldTokens, uid, i, failed, pushed) ==
    IF i > Len(fieldTokens) THEN heap
    ELSE IndexFieldTokensFailing(
             IndexExpandedTokens(heap,
                 IF i = failed THEN ExpandTokenFailing(mode, fieldTokens[i], pushed)
                 ELSE ExpandToken(mode, fieldTokens[i]),
                 uid),
             mode, fieldTokens, uid, i + 1, failed, pushed)

\* fieldTokens.forEach(fieldToken => ...) of SearchUtility.indexDocument
RECURSIVE IndexFieldTokens(_, _, _, _)
IndexFieldTokens(heap, mode, fieldTokens, uid) ==
    IF fieldTokens = <<>> THEN heap
    ELSE IndexFieldTokens(
             IndexExpandedTokens(heap, ExpandToken(mode, Head(fieldTokens)), uid),
             mode, Tail(fieldTokens), uid)

-----------------------------------------------------------------------------
(* SearchUtility *)

Heap == [map |-> tokenToUidMap, proto |-> objectPrototype]

\* the array SearchUtility.search(query) resolves with, for an engine whose
\* _uids has the own keys ownUids, over heap, with options cs and pattern
SearchUtilitySearch(ownUids, heap, cs, pattern, query) ==
    IF query = "" THEN ObjectKeys(ownUids)
    ELSE SearchIndexSearch(heap, Tokenize(Sanitize(query, cs), pattern))

\* SearchUtility.search(query) throws: the exception of SearchIndex.search
\* leaves search before Promise.resolve is called
SearchUtilitySearchThrows(heap, cs, pattern, query) ==
    query # "" /\ SearchIndexSearchThrows(heap, Tokenize(Sanitize(query, cs), pattern))

\* ... in the current state
Search(query) ==
    SearchUtilitySearch(uids, Heap, caseSensitive, tokenizePattern, query)

SearchThrows(query) ==
    SearchUtilitySearchThrows(Heap, caseSensitive, tokenizePattern, query)

\* What the last call was and gave back: the kind of value returned ("this",
\* "promise", "undefined") with, for a promise, the array it is resolved with,
\* or an Error thrown; for indexDocument, the arguments it was called with.
Returned(op, returns, value) ==
    [op |-> op, threw |-> FALSE, returns |-> returns, value |-> value,
     uid |-> Undefined, text |-> ""]
Threw(op) ==
    [op |-> op, threw |-> TRUE, returns |-> "Error", value |-> <<>>,
     uid |-> Undefined, text |-> ""]

\* no traversal of a field token has failed
NoFault == [failed |-> 0, pushed |-> 0]

\* new SearchUtility() in the worker bundle: the engine with its default options
NewSearchUtility ==
    [indexMode |-> ALL_SUBSTRINGS, tokenizePattern |-> WhitespacePattern,
     caseSensitive |-> FALSE, uids |-> {}, map |-> EmptyObject, proto |-> EmptyObject]

\* a message posted to the worker
Message(method, data) == [method |-> method, data |-> data]

\* the messages the SearchWorkerLoader constructor posts for its options: one
\* for each option that is truthy
ConstructorMessages(mode, pattern, cs) ==
    <<Message("setIndexMode", [indexMode |-> mode]),
      Message("setTokenizePattern", [tokenizePattern |-> pattern])>>
    \o (IF cs THEN <<Message("setCaseSensitive", [caseSensitive |-> cs])>> ELSE <<>>)

\* new SearchUtility(options), for any options
NewEngine ==
    /\ indexMode \in ModeInputs
    /\ tokenizePattern \in PatternInputs
    /\ caseSensitive \in BOOLEAN
    /\ uids = {}
    /\ tokenToUidMap = EmptyObject
    /\ objectPrototype = EmptyObject
    /\ result = Returned("new", "this", <<>>)
    /\ calls = {}
    /\ fault = NoFault

\* A SearchUtility alone: no SearchWorkerLoader has been constructed.
Init ==
    /\ NewEngine
    /\ callbackQueue = <<>>
    /\ callbackIdMap = EmptyObject
    /\ workerMessages = <<>>
    /\ searchUtility = NewSearchUtility
    /\ workerEvents = {}
    /\ promises = <<>>
    /\ settled = <<>>

\* SearchUtility.indexDocument(uid, text), on the engine's own state
SearchUtilityIndexDocument(uid, text) ==
    /\ Cardinality(calls) < MaxCalls
    /\ LET fieldTokens == Tokenize(Sanitize(text, caseSensitive), tokenizePattern)
           heap == IndexFieldTokens(Heap, indexMode, fieldTokens, uid)
       IN /\ uids' = DOMAIN PutProperty([k \in uids |-> TRUE], ToPropertyKey(uid), TRUE)
          /\ tokenToUidMap' = heap.map
          /\ objectPrototype' = heap.proto
    /\ result' = [Returned("indexDocument", "this", <<>>) EXCEPT !.uid = uid, !.text = text]
    /\ calls' = calls \cup {[uid |-> uid, indexMode |-> indexMode,
                             fieldTokens |-> Tokenize(Sanitize(text, caseSensitive),
                                                      tokenizePattern)]}
    /\ UNCHANGED <<indexMode, tokenizePattern, caseSensitive>>

\* what SearchUtility.search(query) gives in the current state
SearchResult(query) ==
    IF query = "" THEN Returned("search", "promise", ObjectKeys(uids))
    ELSE LET tokens == Tokenize(Sanitize(query, caseSensitive), tokenizePattern) IN
         IF SearchIndexSearchThrows(Heap, tokens) THEN Threw("search")
         ELSE Returned("search", "promise", SearchIndexSearch(Heap, tokens))

\* a search that creates an empty entry for each query token the index lacks
SearchUtilitySearchQueryCreating(query) ==
    /\ result' = SearchResult(query)
    /\ tokenToUidMap' =
          [t \in DOMAIN tokenToUidMap
                 \cup (Range(Tokenize(Sanitize(query, caseSensitive), tokenizePattern))
                          \ ({"__proto__"} \cup ObjectPrototypeMethods)) |->
              IF t \in DOMAIN tokenToUidMap THEN tokenToUidMap[t] ELSE EmptyObject]
    /\ UNCHANGED <<indexMode, tokenizePattern, caseSensitive, uids, objectPrototype, calls>>

\* SearchUtility.search(query), on the engine's own state
SearchUtilitySearchQuery(query) ==
    /\ result' = SearchResult(query)
    /\ UNCHANGED <<indexMode, tokenizePattern, caseSensitive, uids, tokenToUidMap,
                   objectPrototype, calls>>

IndexDocument(uid, text) ==
    /\ SearchUtilityIndexDocument(uid, text)
    /\ UNCHANGED <<fault, loaderVars>>

SearchQuery(query) ==
    /\ SearchUtilitySearchQuery(query)
    /\ UNCHANGED <<fault, loaderVars>>

\* setIndexMode that assigns the mode before it tests for indexed documents
SetIndexModeAssigningFirst(mode) ==
    /\ indexMode' = mode
    /\ result' = IF Cardinality(uids) > 0 THEN Threw("setIndexMode")
                 ELSE Returned("setIndexMode", "undefined", <<>>)
    /\ UNCHANGED <<tokenizePattern, caseSensitive, uids, tokenToUidMap,
                   objectPrototype, calls, fault, loaderVars>>

SetIndexMode(mode) ==
    /\ IF Cardinality(uids) > 0
       THEN /\ result' = Threw("setIndexMode")
            /\ UNCHANGED indexMode
       ELSE /\ indexMode' = mode
            /\ result' = Returned("setIndexMode", "undefined", <<>>)
    /\ UNCHANGED <<tokenizePattern, caseSensitive, uids, tokenToUidMap,
                   objectPrototype, calls, fault, loaderVars>>

SetTokenizePattern(pattern) ==
    /\ tokenizePattern' = pattern
    /\ result' = Returned("setTokenizePattern", "undefined", <<>>)
    /\ UNCHANGED <<indexMode, caseSensitive, uids, tokenToUidMap, objectPrototype, calls,
                   fault, loaderVars>>

\* setCaseSensitive that also discards the index built under the old setting
SetCaseSensitiveClearing(flag) ==
    /\ caseSensitive' = flag
    /\ tokenToUidMap' = EmptyObject
    /\ result' = Returned("setCaseSensitive", "undefined", <<>>)
    /\ UNCHANGED <<indexMode, tokenizePattern, uids, objectPrototype, calls,
                   fault, loaderVars>>

SetCaseSensitive(flag) ==
    /\ caseSensitive' = flag
    /\ result' = Returned("setCaseSensitive", "undefined", <<>>)
    /\ UNCHANGED <<indexMode, tokenizePattern, uids, tokenToUidMap, objectPrototype, calls,
                   fault, loaderVars>>

Next ==
    \/ \E uid \in UidInputs, text \in TextInputs : IndexDocument(uid, text)
    \/ \E query \in QueryInputs : SearchQuery(query)
    \/ \E mode \in ModeInputs : SetIndexMode(mode)
    \/ \E pattern \in PatternInputs : SetTokenizePattern(pattern)
    \/ \E flag \in BOOLEAN : SetCaseSensitive(flag)

Spec == Init /\ [][Next]_vars

\* SearchUtility.indexDocument(uid, text) when String.prototype.charAt / substr
\* throws in the traversal of the failed-th field token, after `pushed`
\* elements of its expansion were pushed
IndexDocumentFailing(uid, text, failed, pushed) ==
    /\ Cardinality(calls) < MaxCalls
    /\ indexMode # EXACT_WORDS
    /\ LET fieldTokens == Tokenize(Sanitize(text, caseSensitive), tokenizePattern) IN
       /\ failed \in 1..Len(fieldTokens)
       /\ pushed < Len(ExpandToken(indexMode, fieldTokens[failed]))
       /\ LET heap == IndexFieldTokensFailing(Heap, indexMode, fieldTokens, uid, 1,
                                              failed, pushed)
          IN /\ tokenToUidMap' = heap.map
             /\ objectPrototype' = heap.proto
       /\ calls' = calls \cup {[uid |-> uid, indexMode |-> indexMode,
                                fieldTokens |-> fieldTokens]}
    /\ uids' = DOMAIN PutProperty([k \in uids |-> TRUE], ToPropertyKey(uid), TRUE)
    /\ result' = [Returned("indexDocument", "this", <<>>) EXCEPT !.uid = uid, !.text = text]
    /\ fault' = [failed |-> failed, pushed |-> pushed]
    /\ UNCHANGED <<indexMode, tokenizePattern, caseSensitive, loaderVars>>

\* The engine in an environment where every indexDocument meets a traversal
\* failure in one field token.
FaultNext ==
    \/ \E uid \in UidInputs, text \in TextInputs, failed \in 1..2, pushed \in 0..MaxPushed :
          IndexDocumentFailing(uid, text, failed, pushed)
    \/ \E query \in QueryInputs : SearchQuery(query)

FaultSpec == Init /\ [][FaultNext]_vars

-----------------------------------------------------------------------------
(* SearchWorkerLoader and its worker *)

\* searchUtility.indexDocument(uid, text) in the worker
WorkerIndexDocument(engine, uid, text) ==
    LET fieldTokens == Tokenize(Sanitize(text, engine.caseSensitive), engine.tokenizePattern)
        heap == IndexFieldTokens([map |-> engine.map, proto |-> engine.proto],
                                 engine.indexMode, fieldTokens, uid)
    IN [engine EXCEPT !.uids = DOMAIN PutProperty([k \in engine.uids |-> TRUE],
                                                  ToPropertyKey(uid), TRUE),
                      !.map = heap.map,
                      !.proto = heap.proto]

\* searchUtility.setIndexMode(indexMode) in the worker; when it throws, the
\* engine is as before
WorkerSetIndexMode(engine, mode) ==
    IF Cardinality(engine.uids) > 0 THEN engine ELSE [engine EXCEPT !.indexMode = mode]

\* searchUtility.search(query) in the worker throws
WorkerSearchThrows(engine, query) ==
    SearchUtilitySearchThrows([map |-> engine.map, proto |-> engine.proto],
                              engine.caseSensitive, engine.tokenizePattern, query)

\* searchUtility.search(query) in the worker: the array returned
WorkerSearch(engine, query) ==
    SearchUtilitySearch(engine.uids, [map |-> engine.map, proto |-> engine.proto],
                        engine.caseSensitive, engine.tokenizePattern, query)

\* self.postMessage({callbackId, results}), as the loader's onmessage sees it
MessageEvent(callbackId, results) ==
    [type |-> "message", of |-> callbackId,
     data |-> [callbackId |-> callbackId, error |-> Undefined, results |-> results]]

\* an exception that leaves the worker's handler: the ErrorEvent the loader's
\* onerror receives has no data property.  `of` tells the events apart.
ErrorEvent(callbackId) ==
    [type |-> "error", of |-> callbackId]

\* the error event of an injected WorkerClass: it carries the callbackId and an error
ErrorEventWithData(callbackId, error) ==
    [type |-> "error", of |-> callbackId,
     data |-> [callbackId |-> callbackId, error |-> error, results |-> Undefined]]

\* the data object search() creates for one call; resolve and reject are those
\* of the promise promises[callbackId]
NewCallbackData == [complete |-> FALSE, error |-> Undefined, results |-> Undefined]

\* a resolve or reject call on the promise of callbackId
Settlement(callbackId, data) ==
    IF ~Falsy(data.error)
    THEN [callbackId |-> callbackId, by |-> "reject", value |-> data.error]
    ELSE [callbackId |-> callbackId, by |-> "resolve", value |-> data.results]

\* _updateQueue without its queue: the promise of the reply is settled at once
UpdateQueueAtOnce(queue, map, log, callbackId, error, results) ==
    [callbackQueue |-> SelectSeq(queue, LAMBDA id : id # callbackId),
     callbackIdMap |-> [id \in DOMAIN map \ {callbackId} |-> map[id]],
     settled |-> Append(log, Settlement(callbackId,
                                        [complete |-> TRUE, error |-> error,
                                         results |-> results]))]

\* the while loop of _updateQueue without its delete: a settled entry leaves
\* the queue and stays in the map
RECURSIVE FlushKeepingMap(_, _, _)
FlushKeepingMap(queue, map, log) ==
    IF queue = <<>> \/ ~map[Head(queue)].complete
    THEN [callbackQueue |-> queue, callbackIdMap |-> map, settled |-> log]
    ELSE FlushKeepingMap(Tail(queue), map,
                         Append(log, Settlement(Head(queue), map[Head(queue)])))

\* the while loop of _updateQueue: the completed heads of the queue are
\* shifted, deleted from the map and settled, oldest first
RECURSIVE Flush(_, _, _)
Flush(queue, map, log) ==
    IF queue = <<>> \/ ~map[Head(queue)].complete
    THEN [callbackQueue |-> queue, callbackIdMap |-> map, settled |-> log]
    ELSE Flush(Tail(queue),
               [id \in DOMAIN map \ {Head(queue)} |-> map[id]],
               Append(log, Settlement(Head(queue), map[Head(queue)])))

\* _updateQueue({callbackId, error, results}) for a callbackId of the map
UpdateQueue(queue, map, log, callbackId, error, results) ==
    Flush(queue,
          [map EXCEPT ![callbackId] = [complete |-> TRUE, error |-> error,
                                       results |-> results]],
          log)

\* A SearchUtility and a SearchWorkerLoader constructed with the same options.
LoaderInit ==
    /\ NewEngine
    /\ callbackQueue = <<>>
    /\ callbackIdMap = EmptyObject
    /\ workerMessages = ConstructorMessages(indexMode, tokenizePattern, caseSensitive)
    /\ searchUtility = NewSearchUtility
    /\ workerEvents = {}
    /\ promises = <<>>
    /\ settled = <<>>

\* indexDocument(uid, text) on the SearchUtility and on the SearchWorkerLoader
ClientIndexDocument(uid, text) ==
    /\ Len(workerMessages) <= MaxQueued
    /\ SearchUtilityIndexDocument(uid, text)
    /\ workerMessages' = Append(workerMessages,
                                Message("indexDocument", [uid |-> uid, text |-> text]))
    /\ UNCHANGED <<fault, callbackQueue, callbackIdMap, searchUtility, workerEvents,
                   promises, settled>>

\* search(query) on the SearchUtility and on the SearchWorkerLoader; uuid.v4()
\* gives a callbackId no earlier call was given
ClientSearch(query) ==
    /\ Len(promises) < MaxSearches
    /\ SearchUtilitySearchQuery(query)
    /\ LET callbackId == Len(promises) + 1 IN
       /\ workerMessages' = Append(workerMessages,
              Message("search", [query |-> query, callbackId |-> callbackId]))
       /\ callbackQueue' = Append(callbackQueue, callbackId)
       /\ callbackIdMap' = [id \in DOMAIN callbackIdMap \cup {callbackId} |->
                               IF id = callbackId THEN NewCallbackData
                               ELSE callbackIdMap[id]]
       /\ promises' = Append(promises, [query |-> query, sync |-> SearchResult(query)])
    /\ UNCHANGED <<fault, searchUtility, workerEvents, settled>>

\* the worker's message listener: its SearchUtility after the message.  The
\* switch has no case for a method other than these three.
WorkerEngineAfter(engine, message) ==
    IF message.method = "indexDocument"
    THEN WorkerIndexDocument(engine, message.data.uid, message.data.text)
    ELSE IF message.method = "setIndexMode"
    THEN WorkerSetIndexMode(engine, message.data.indexMode)
    ELSE engine

\* the worker's message listener: the events the message makes it raise
WorkerEventsFor(engine, message) ==
    IF message.method # "search" THEN {}
    ELSE IF WorkerSearchThrows(engine, message.data.query)
    THEN {ErrorEvent(message.data.callbackId)}
    ELSE {MessageEvent(message.data.callbackId,
                       WorkerSearch(engine, message.data.query))}

\* a worker that takes the newest message posted to it first
WorkerOnMessageNewestFirst ==
    /\ workerMessages # <<>>
    /\ LET message == workerMessages[Len(workerMessages)] IN
       /\ searchUtility' = WorkerEngineAfter(searchUtility, message)
       /\ workerEvents' = workerEvents \cup WorkerEventsFor(searchUtility, message)
    /\ workerMessages' = SubSeq(workerMessages, 1, Len(workerMessages) - 1)
    /\ UNCHANGED <<engineVars, fault, callbackQueue, callbackIdMap, promises, settled>>

\* the worker's message listener, on the oldest message posted to it
WorkerOnMessage ==
    /\ workerMessages # <<>>
    /\ searchUtility' = WorkerEngineAfter(searchUtility, Head(workerMessages))
    /\ workerEvents' = workerEvents \cup WorkerEventsFor(searchUtility, Head(workerMessages))
    /\ workerMessages' = Tail(workerMessages)
    /\ UNCHANGED <<engineVars, fault, callbackQueue, callbackIdMap, promises, settled>>

\* an injected WorkerClass answers the oldest message, a search, with an error
\* event for its callbackId
InjectedWorkerError(error) ==
    /\ workerMessages # <<>>
    /\ Head(workerMessages).method = "search"
    /\ workerEvents' = workerEvents \cup
          {ErrorEventWithData(Head(workerMessages).data.callbackId, error)}
    /\ workerMessages' = Tail(workerMessages)
    /\ UNCHANGED <<engineVars, fault, callbackQueue, callbackIdMap, searchUtility,
                   promises, settled>>

\* worker.onmessage(event) and worker.onerror(event): both read event.data and
\* call _updateQueue.  Reading event.data.callbackId of an event without data
\* throws, and so does _updateQueue for a callbackId the map does not hold: the
\* handler then ends with nothing changed.
LoaderOnEvent(event) ==
    /\ event \in workerEvents
    /\ workerEvents' = workerEvents \ {event}
    /\ IF "data" \notin DOMAIN event \/ event.data.callbackId \notin DOMAIN callbackIdMap
       THEN UNCHANGED <<callbackQueue, callbackIdMap, settled>>
       ELSE LET after == UpdateQueue(callbackQueue, callbackIdMap, settled,
                                     event.data.callbackId, event.data.error,
                                     event.data.results)
            IN /\ callbackQueue' = after.callbackQueue
               /\ callbackIdMap' = after.callbackIdMap
               /\ settled' = after.settled
    /\ UNCHANGED <<engineVars, fault, workerMessages, searchUtility, promises>>

LoaderOnMessage(event) == event.type = "message" /\ LoaderOnEvent(event)

LoaderOnError(event) == event.type = "error" /\ LoaderOnEvent(event)

\* The loader with the worker of the bundle; events reach the loader in any order.
WorkerNext ==
    \/ \E uid \in LoaderUidInputs, text \in LoaderTextInputs : ClientIndexDocument(uid, text)
    \/ \E query \in LoaderQueryInputs : ClientSearch(query)
    \/ WorkerOnMessage
    \/ \E event \in workerEvents : LoaderOnMessage(event)
    \/ \E event \in workerEvents : LoaderOnError(event)

WorkerSpec == LoaderInit /\ [][WorkerNext]_vars

\* The loader with any worker: a search may also be answered with an error event.
ChannelNext ==
    \/ WorkerNext
    \/ \E error \in ErrorInputs : InjectedWorkerError(error)

ChannelSpec == LoaderInit /\ [][ChannelNext]_vars

\* The worker handles every message posted to it, and every event it raises
\* reaches the loader.
WorkerHandles == (\E error \in ErrorInputs : InjectedWorkerError(error)) \/ WorkerOnMessage

LoaderHandles ==
    \E event \in workerEvents : LoaderOnMessage(event) \/ LoaderOnError(event)

\* The searches of a loader constructed over an empty index, with any worker.
SearchesNext ==
    \/ \E query \in LoaderQueryInputs : ClientSearch(query)
    \/ WorkerHandles
    \/ LoaderHandles

LiveChannelSpec ==
    /\ LoaderInit
    /\ [][SearchesNext]_vars
    /\ WF_vars(WorkerHandles)
    /\ WF_vars(LoaderHandles)

\* The engine constructed with any options and never reconfigured.
NextFixed ==
    \/ \E uid \in UidInputs, text \in TextInputs : IndexDocument(uid, text)
    \/ \E query \in QueryInputs : SearchQuery(query)

FixedSpec == Init /\ [][NextFixed]_vars

-----------------------------------------------------------------------------
(* Vocabulary of the claims *)

\* the uids passed to indexDocument so far
CalledUids == {c.uid : c \in calls}

CallsOf(u) == {c \in calls : c.uid = u}

\* the field tokens of the texts indexed for u, by the calls of history
FieldTokensIn(history, u) == UNION {Range(c.fieldTokens) : c \in {d \in history : d.uid = u}}

FieldTokensOf(u) == FieldTokensIn(calls, u)

\* the tokens a query is searched by, under the current options
QueryTokens(q) == Tokenize(Sanitize(q, caseSensitive), tokenizePattern)

SubstringsOf(t) == {SubSeq(t, i, j) : i \in 1..Len(t), j \in 1..Len(t)} \ {""}

PrefixesOf(t) == {SubSeq(t, 1, j) : j \in 1..Len(t)}

ExpansionOf(mode, t) ==
    CASE mode = EXACT_WORDS -> {t}
      [] mode = PREFIXES -> PrefixesOf(t)
      [] OTHER -> SubstringsOf(t)

\* the expanded tokens indexed for u
ExpandedFor(u) ==
    UNION {ExpansionOf(c.indexMode, t) : <<c, t>> \in
              {<<d, x>> \in CallsOf(u) \X FieldTokensOf(u) : x \in Range(d.fieldTokens)}}

\* the uids a search resolves with, as a set
Found(q) == Range(Search(q))

\* the array a search resolves with in the state a step leads to
SearchNext(q) ==
    SearchUtilitySearch(uids', [map |-> tokenToUidMap', proto |-> objectPrototype'],
                        caseSensitive', tokenizePattern', q)

FoundNext(q) == Range(SearchNext(q))

NoDuplicates(seq) == \A i, j \in 1..Len(seq) : seq[i] = seq[j] => i = j

-----------------------------------------------------------------------------
(* Claims *)

\* C1: multi-token AND.  With the options fixed, a query with at least one
\* token resolves with exactly the uids u for which every query token is an
\* expanded token indexed for u.
C1_MultiTokenAnd ==
    \A q \in QueryInputs :
        (q # "" /\ QueryTokens(q) # <<>>) =>
            Found(q) = {u \in CalledUids : Range(QueryTokens(q)) \subseteq ExpandedFor(u)}

\* C2: in every reachable state, search('') resolves with exactly the uids
\* passed to indexDocument so far, each once.
C2_EmptyQueryAllUids ==
    /\ Found("") = CalledUids
    /\ NoDuplicates(Search(""))

\* C3: setIndexMode throws whenever an indexDocument call has been made, and
\* otherwise succeeds and sets the mode.
C3_SetIndexModeGuard ==
    [][\A mode \in ModeInputs :
          SetIndexMode(mode) =>
              IF calls # {}
              THEN result'.threw /\ indexMode' = indexMode
              ELSE ~result'.threw /\ indexMode' = mode]_vars

\* C4: under EXACT_WORDS with the options fixed, a single-token query finds an
\* indexed uid if and only if its token is a field token of a text indexed
\* for that uid.
C4_ExactWords ==
    indexMode = EXACT_WORDS =>
        \A q \in QueryInputs : Len(QueryTokens(q)) = 1 =>
            \A u \in CalledUids :
                u \in Found(q) <=> QueryTokens(q)[1] \in FieldTokensOf(u)

\* C5: under ALL_SUBSTRINGS with the options fixed, a single-token query finds
\* an indexed uid if and only if its token is a non-empty substring of a field
\* token of a text indexed for that uid.
C5_AllSubstrings ==
    indexMode = ALL_SUBSTRINGS =>
        \A q \in QueryInputs : Len(QueryTokens(q)) = 1 =>
            \A u \in CalledUids :
                u \in Found(q) <=>
                    \E t \in FieldTokensOf(u) : QueryTokens(q)[1] \in SubstringsOf(t)

\* C6: under PREFIXES, a single-token query finds an indexed uid if and only if
\* its token is a non-empty prefix of a field token indexed for that uid.
C6_Prefixes ==
    indexMode = PREFIXES =>
        \A q \in QueryInputs : Len(QueryTokens(q)) = 1 =>
            \A u \in CalledUids :
                u \in Found(q) <=>
                    \E t \in FieldTokensOf(u) : QueryTokens(q)[1] \in PrefixesOf(t)

\* two strings that differ at most in the case of their letters
SameIgnoringCase(a, b) ==
    /\ Len(a) = Len(b)
    /\ \A i \in 1..Len(a) :
          \/ CharAt(a, i) = CharAt(b, i)
          \/ <<CharAt(a, i), CharAt(b, i)>> \in {<<"A", "a">>, <<"a", "A">>, <<"B", "b">>, <<"b", "B">>}

\* the tokens of a text as written, before any case folding
RawTokens(text) == Tokenize(Trim(text), tokenizePattern)

\* C7: case handling, with the options fixed.  Right after
\* indexDocument(uid, text), a single-token query whose token is a token of
\* the text up to letter case finds uid when caseSensitive is false; when
\* caseSensitive is true it finds uid if the two are equal, and does not if
\* the query token is no expanded token indexed for uid.
C7_CaseHandling ==
    result.op = "indexDocument" =>
        \A q \in QueryInputs :
            (/\ Len(RawTokens(q)) = 1
             /\ \E t \in Range(RawTokens(result.text)) : SameIgnoringCase(t, RawTokens(q)[1]))
            => IF caseSensitive
               THEN /\ RawTokens(q)[1] \in Range(RawTokens(result.text)) => result.uid \in Found(q)
                    /\ RawTokens(q)[1] \notin ExpandedFor(result.uid) => result.uid \notin Found(q)
               ELSE result.uid \in Found(q)

\* C8: re-indexing is additive, with the options fixed.  No step makes a query
\* lose a uid it found; and after indexDocument(uid, text) for a uid indexed
\* before, every field token of text finds uid and no result lists a uid twice.
C8_ReindexAdditive ==
    [][/\ \A q \in QueryInputs : Found(q) \subseteq FoundNext(q)
       /\ (result'.op = "indexDocument" /\ result'.uid \in CalledUids) =>
             /\ \A t \in Range(QueryTokens(result'.text)) : result'.uid \in FoundNext(t)
             /\ \A q \in QueryInputs : NoDuplicates(SearchNext(q))]_vars

\* C9: indexDocument(uid, text) never throws and returns the engine; uid joins
\* the known identifiers; for empty or whitespace-only text the inverted index
\* is unchanged, search('') finds uid and, if uid was indexed with no other
\* text, no token query finds it.
C9_IndexDocumentTotal ==
    [][result'.op = "indexDocument" =>
          /\ ~result'.threw /\ result'.returns = "this"
          /\ ToPropertyKey(result'.uid) \in uids'
          /\ Trim(result'.text) = "" =>
                /\ tokenToUidMap' = tokenToUidMap
                /\ objectPrototype' = objectPrototype
                /\ result'.uid \in FoundNext("")
                /\ FieldTokensIn(calls', result'.uid) = {} =>
                      \A q \in QueryInputs \ {""} : result'.uid \notin FoundNext(q)]_vars

\* the uid values stored under token t
StoredUnder(t) == LET m == UidMapOf(Heap, t) IN {m[k] : k \in DOMAIN m}

IndexedTokens == DOMAIN tokenToUidMap \cup {t \in {"__proto__"} : objectPrototype # EmptyObject}

\* C10: state only grows.  No step removes a key from the known identifiers,
\* a token from the inverted index, or a uid from the set stored under a token.
C10_StateOnlyGrows ==
    [][/\ uids \subseteq uids'
       /\ IndexedTokens \subseteq IndexedTokens'
       /\ \A t \in IndexedTokens : StoredUnder(t) \subseteq StoredUnder(t)']_vars

\* C10 witness: a second indexDocument call has added a second uid under a token
C10_Grown ==
    /\ result.op = "indexDocument"
    /\ Cardinality(uids) = 2
    /\ \E t \in DOMAIN tokenToUidMap : Cardinality(StoredUnder(t)) = 2

\* every token with an entry, or that some call expanded to
TokenUniverse == IndexedTokens \cup UNION {ExpandedFor(u) : u \in CalledUids}

\* C11: inverted-index invariant.  In every reachable state uid u is stored
\* under token T if and only if some earlier indexDocument(u, text) produced,
\* under the index mode and options in force at that call, an expanded token
\* equal to T.
C11_IndexInvariant ==
    \A t \in TokenUniverse : StoredUnder(t) = {u \in CalledUids : t \in ExpandedFor(u)}

\* C14: search never fails.  Every search call returns a promise, fulfilled
\* with an array of uids, and throws nothing; the array is empty when nothing
\* was indexed.
C14_SearchNeverFails ==
    result.op = "search" =>
        /\ ~result.threw
        /\ result.returns = "promise"
        /\ calls = {} => result.value = <<>>

\* C17: two-tier "no tokens" behaviour.  Only the empty query is answered with
\* all known identifiers; a non-empty query that yields no token is answered
\* with the empty array, whatever was indexed.
C17_TwoTierNoTokens ==
    /\ Search("") = ObjectKeys(uids)
    /\ \A q \in QueryInputs :
          (q # "" /\ QueryTokens(q) = <<>>) => ~SearchThrows(q) /\ Search(q) = <<>>

\* token sequences handed to SearchIndex.search: one token, two tokens in
\* either order, a repeated token, a token with no entry ("zz")
TokenSequenceInputs ==
    {<<"ab">>, <<"ab", "b">>, <<"b", "ab">>, <<"ab", "ab">>, <<"b", "ab", "b">>,
     <<"ab", "zz">>, <<"zz", "ab">>}

\* C18: SearchIndex.search(tokens) returns exactly the uids stored under every
\* token of the sequence, each once, whatever the uid values (falsy ones too)
\* and with repeated tokens; a token with no entry makes the result empty.
C18_SearchIndexIntersection ==
    \A ts \in TokenSequenceInputs :
        /\ ~SearchIndexSearchThrows(Heap, ts)
        /\ Range(SearchIndexSearch(Heap, ts)) =
               {u \in StoredUnder(ts[1]) : \A i \in 1..Len(ts) : u \in StoredUnder(ts[i])}
        /\ NoDuplicates(SearchIndexSearch(Heap, ts))
        /\ (\E i \in 1..Len(ts) : ts[i] \notin IndexedTokens) =>
               SearchIndexSearch(Heap, ts) = <<>>

\* tokens handed to SearchIndex.indexDocument
IndexTokenInputs == {"ab", "b", "zz", "__proto__", "constructor"}

\* C19: SearchIndex.indexDocument(token, uid) is idempotent: a second call with
\* the same pair leaves the token-to-uid map as the first call left it; and
\* right after SearchUtility.indexDocument(uid, text), the same call again
\* leaves the engine state unchanged.
C19_Idempotent ==
    /\ \A t \in IndexTokenInputs, u \in UidInputs :
          LET once == SearchIndexIndexDocument(Heap, t, u)
          IN SearchIndexIndexDocument(once, t, u) = once
    /\ result.op = "indexDocument" =>
          /\ IndexFieldTokens(Heap, indexMode,
                 Tokenize(Sanitize(result.text, caseSensitive), tokenizePattern),
                 result.uid) = Heap
          /\ DOMAIN PutProperty([k \in uids |-> TRUE], ToPropertyKey(result.uid), TRUE) = uids

\* an indexDocument call has just stored a uid under several tokens
C19_Indexed ==
    /\ result.op = "indexDocument"
    /\ Cardinality(DOMAIN tokenToUidMap) >= 2
    /\ \E t \in DOMAIN tokenToUidMap : Cardinality(StoredUnder(t)) = 2

\* the history after indexDocument('X', 'Ab') alone, made with caseSensitive
\* false: its one field token is the lower-case 'ab'
OnlyNameIndexed ==
    calls = {[uid |-> Str("X"), indexMode |-> indexMode, fieldTokens |-> <<"ab">>]}

\* C16: setTokenizePattern and setCaseSensitive succeed at any time; they
\* leave the inverted index, the known identifiers, the index mode and the
\* other option unchanged, so that only the sanitizing and tokenizing of later
\* calls is affected.  E.g. with only 'Ab' indexed under caseSensitive false,
\* after setCaseSensitive(true) search('ab') finds the uid and search('Ab')
\* does not.
C16_SettersFrame ==
    [][result'.op \in {"setTokenizePattern", "setCaseSensitive"} =>
          /\ ~result'.threw
          /\ tokenToUidMap' = tokenToUidMap
          /\ objectPrototype' = objectPrototype
          /\ uids' = uids
          /\ indexMode' = indexMode
          /\ result'.op = "setTokenizePattern" => caseSensitive' = caseSensitive
          /\ result'.op = "setCaseSensitive" => tokenizePattern' = tokenizePattern
          /\ (result'.op = "setCaseSensitive" /\ caseSensitive' /\ OnlyNameIndexed) =>
                /\ Str("X") \in FoundNext("ab")
                /\ Str("X") \notin FoundNext("Ab")]_vars

\* setCaseSensitive(true) has just been called on an engine that indexed 'Ab'
\* case-insensitively: 'ab' finds the uid, 'Ab' does not
C16_SetAfterIndexing ==
    /\ result.op = "setCaseSensitive"
    /\ caseSensitive
    /\ OnlyNameIndexed
    /\ Str("X") \in Found("ab")
    /\ Str("X") \notin Found("Ab")

\* a sequence without its k-th element
Without(seq, k) == SubSeq(seq, 1, k - 1) \o SubSeq(seq, k + 1, Len(seq))

\* C15: a token-parse failure is recovered locally.  When the traversal of one
\* field token fails part-way, indexDocument returns the engine and throws
\* nothing, the failing token adds no expanded token to the index, and the
\* other field tokens are indexed as they are without the failure.
C15_TokenFailureRecovered ==
    [][result'.op = "indexDocument" =>
          LET fieldTokens == Tokenize(Sanitize(result'.text, caseSensitive), tokenizePattern)
              heap == IndexFieldTokens(Heap, indexMode, Without(fieldTokens, fault'.failed),
                                       result'.uid)
          IN /\ ~result'.threw
             /\ result'.returns = "this"
             /\ tokenToUidMap' = heap.map
             /\ objectPrototype' = heap.proto]_vars


\* C12: constructed with the same options and given the same calls, the
\* worker-backed instance answers every query with the uids SearchUtility
\* returns for it: a promise of the loader is settled only by resolving it with
\* the uids of the SearchUtility's result for the same call.
C12_TransparentProxy ==
    \A i \in 1..Len(settled) :
        LET sync == promises[settled[i].callbackId].sync IN
        /\ settled[i].by = "resolve"
        /\ ~sync.threw
        /\ Range(settled[i].value) = Range(sync.value)


\* C13: the promises of one SearchWorkerLoader are settled in the order of the
\* search calls (the k-th settlement is that of the k-th call), so no promise is
\* settled before an earlier call's, whatever the order the replies arrive in.
C13_FifoSettlement ==
    \A k \in 1..Len(settled) : settled[k].callbackId = k

\* the reply to a later call has arrived while an earlier call still waits for its own
C13_LaterReplyFirst ==
    /\ Len(callbackQueue) = 2
    /\ ~callbackIdMap[callbackQueue[1]].complete
    /\ callbackIdMap[callbackQueue[2]].complete
    /\ settled = <<>>


\* the search call with this callbackId has been made
Sent(callbackId) == callbackId <= Len(promises)

\* the search message with this callbackId waits for the worker
Waiting(callbackId) ==
    \E i \in 1..Len(workerMessages) :
        /\ workerMessages[i].method = "search"
        /\ workerMessages[i].data.callbackId = callbackId

\* the worker has raised its reply, results or an error, to the search message
\* with this callbackId
Replied(callbackId) == \E event \in workerEvents : event.of = callbackId

\* the promise of this call has been resolved or rejected
Settled(callbackId) == \E k \in 1..Len(settled) : settled[k].callbackId = callbackId

\* no promise is resolved or rejected more than once
SettledAtMostOnce ==
    \A j, k \in 1..Len(settled) : settled[j].callbackId = settled[k].callbackId => j = k

\* C20: if the worker eventually replies, with results or with an error, to
\* every search message it was sent, then every promise returned by search is
\* eventually settled, and no promise is ever settled more than once.
C20_ProxyLiveness ==
    (\A id \in 1..MaxSearches : Waiting(id) ~> Replied(id))
        => /\ \A id \in 1..MaxSearches : Sent(id) ~> Settled(id)
           /\ []SettledAtMostOnce


\* the error an error event reports: the error of its data, or the event
\* itself when it carries no data
ErrorOf(event) == IF "data" \in DOMAIN event THEN event.data.error ELSE Str("ErrorEvent")

\* the settlements a step adds
NewlySettled == SubSeq(settled', Len(settled) + 1, Len(settled'))

\* C21: when the loader handles an error event of the worker for a pending
\* call, that call's promise is rejected with the error and not resolved (at
\* once when the call is the oldest pending one, otherwise its entry is marked
\* complete with the error), a rejected entry leaves both the queue and the
\* map, and every other call settled in the step is settled with its own
\* recorded outcome while the remaining ones stay pending as they were.
C21_WorkerErrorPath ==
    [][\A event \in workerEvents :
          (event.type = "error" /\ event \notin workerEvents'
                                /\ event.of \in DOMAIN callbackIdMap)
          => LET id == event.of
                 rejection == [callbackId |-> id, by |-> "reject", value |-> ErrorOf(event)]
             IN /\ IF Head(callbackQueue) = id
                   THEN /\ NewlySettled # <<>>
                        /\ NewlySettled[1] = rejection
                        /\ id \notin DOMAIN callbackIdMap'
                        /\ id \notin Range(callbackQueue')
                   ELSE /\ NewlySettled = <<>>
                        /\ callbackIdMap'[id].complete
                        /\ callbackIdMap'[id].error = ErrorOf(event)
                /\ \A k \in 1..Len(NewlySettled) :
                      NewlySettled[k].callbackId # id
                      => NewlySettled[k] = Settlement(NewlySettled[k].callbackId,
                                               callbackIdMap[NewlySettled[k].callbackId])
                /\ \A other \in DOMAIN callbackIdMap' :
                      other # id => callbackIdMap'[other] = callbackIdMap[other]
      ]_vars


\* the options a SearchWorkerLoader and a SearchUtility have when none is given
DefaultOptions ==
    indexMode = ALL_SUBSTRINGS /\ tokenizePattern = WhitespacePattern /\ ~caseSensitive

\* the step is an indexDocument call on the loader
IndexDocumentPosted ==
    /\ Len(workerMessages') = Len(workerMessages) + 1
    /\ workerMessages'[Len(workerMessages')].method = "indexDocument"

\* C22: with default options the worker evaluates a search after exactly the
\* indexing messages posted before it: the outcome it raises for the search is
\* the outcome of the synchronous engine at the moment of the search call
\* (results for results, an exception for an exception); and indexDocument
\* returns the proxy at once, the worker having handled nothing in that step.
C22_MessageOrdering ==
    /\ [](DefaultOptions =>
            \A event \in workerEvents :
                LET sync == promises[event.of].sync IN
                IF event.type = "message"
                THEN ~sync.threw /\ event.data.results = sync.value
                ELSE sync.threw)
    /\ [][(DefaultOptions /\ IndexDocumentPosted) =>
              /\ result'.op = "indexDocument"
              /\ result'.returns = "this"
              /\ ~result'.threw
              /\ searchUtility' = searchUtility
              /\ workerEvents' = workerEvents]_vars

\* the worker has answered a search with results that documents indexed after
\* the search call have since made out of date
C22_AnsweredBeforeLaterIndexing ==
    /\ DefaultOptions
    /\ \E event \in workerEvents :
          /\ event.type = "message"
          /\ event.data.results # SearchResult(promises[event.of].query).value


\* the heap in the state a step leads to
HeapNext == [map |-> tokenToUidMap', proto |-> objectPrototype']

\* C23: token expansion is total over index-mode values.  In every
\* indexDocument call, whatever the mode value, the call does not throw, each
\* field token is expanded to a non-empty array (the token itself under
\* EXACT_WORDS, its prefixes in increasing length under PREFIXES, all its
\* substrings under any other value), and exactly these expanded tokens are
\* handed to the index for the uid: the entry of each is what
\* SearchIndex.indexDocument makes of it, and no other entry changes.
C23_ExpansionTotal ==
    [][result'.op = "indexDocument" =>
          \A sanitized \in {Sanitize(result'.text, caseSensitive)} :
          \A fieldTokens \in {Tokenize(sanitized, tokenizePattern)} :
          \A expanded \in {UNION {ExpansionOf(indexMode, fieldTokens[i]) :
                                     i \in 1..Len(fieldTokens)}} :
             /\ ~result'.threw
             /\ \A i \in 1..Len(fieldTokens) :
                \A expandedTokens \in {ExpandToken(indexMode, fieldTokens[i])} :
                   /\ expandedTokens # <<>>
                   /\ Range(expandedTokens) = ExpansionOf(indexMode, fieldTokens[i])
                   /\ indexMode = EXACT_WORDS => expandedTokens = <<fieldTokens[i]>>
                   /\ indexMode = PREFIXES =>
                         /\ Len(expandedTokens) = Len(fieldTokens[i])
                         /\ \A k \in 1..Len(fieldTokens[i]) :
                               expandedTokens[k] = SubSeq(fieldTokens[i], 1, k)
             /\ \A e \in expanded :
                   UidMapOf(HeapNext, e)
                     = UidMapOf(SearchIndexIndexDocument(Heap, e, result'.uid), e)
             /\ \A t \in DOMAIN tokenToUidMap' \ expanded :
                   t \in DOMAIN tokenToUidMap /\ tokenToUidMap'[t] = tokenToUidMap[t]
             /\ "__proto__" \notin expanded => objectPrototype' = objectPrototype]_vars

\* a document has been indexed under a mode value outside the three constants
C23_IndexedUnderUnknownMode ==
    /\ indexMode \notin INDEX_MODES
    /\ result.op = "indexDocument"
    /\ "b" \in DOMAIN tokenToUidMap
    /\ "ab" \in DOMAIN tokenToUidMap


\* C24: a setIndexMode call that throws changes nothing: the index mode, the
\* tokenize pattern, the case-sensitive flag, the known identifiers and the
\* inverted index are after the call what they were before it, so every later
\* call finds the engine as if the failed call had not been made.
C24_FailedSetIndexModeFrame ==
    [][(result'.op = "setIndexMode" /\ result'.threw) =>
          /\ indexMode' = indexMode
          /\ tokenizePattern' = tokenizePattern
          /\ caseSensitive' = caseSensitive
          /\ uids' = uids
          /\ tokenToUidMap' = tokenToUidMap
          /\ objectPrototype' = objectPrototype]_vars

\* setIndexMode has just thrown on an engine that holds indexed tokens
C24_SetIndexModeThrew ==
    /\ result.op = "setIndexMode"
    /\ result.threw
    /\ tokenToUidMap # EmptyObject


\* C25: search is read-only.  Whatever the query, and whether it returns or
\* throws, the index mode, the options, the known identifiers and the inverted
\* index (Object.prototype included) are after the call what they were before
\* it: no entry is created for an unknown token, the setIndexMode guard reads
\* the same identifiers, and a repeated search reads the same state.
C25_SearchReadOnly ==
    [][result'.op = "search" =>
          /\ indexMode' = indexMode
          /\ tokenizePattern' = tokenizePattern
          /\ caseSensitive' = caseSensitive
          /\ uids' = uids
          /\ tokenToUidMap' = tokenToUidMap
          /\ objectPrototype' = objectPrototype
          /\ calls' = calls]_vars

\* a search for a token the index lacks has just returned nothing on an engine
\* that holds other tokens
C25_SearchedUnknownToken ==
    /\ result.op = "search"
    /\ ~result.threw
    /\ result.value = <<>>
    /\ tokenToUidMap # EmptyObject


\* C26: for a fixed engine state the result of a search depends only on the
\* set of its tokens: two token sequences with the same tokens, in any order
\* and with any repetition, return the same uids, whatever the stored uid values.
C26_TokenSetOnly ==
    \A ts, us \in TokenSequenceInputs :
        Range(ts) = Range(us) =>
            /\ SearchIndexSearchThrows(Heap, ts) = SearchIndexSearchThrows(Heap, us)
            /\ Range(SearchIndexSearch(Heap, ts)) = Range(SearchIndexSearch(Heap, us))


\* the indexDocument calls of a history made on a new engine whose index mode
\* is `mode`, the field tokens being those the calls had.  The calls write
\* token[uid] = uid for uids of distinct keys, so their order does not matter.
RECURSIVE Replay(_, _, _)
Replay(heap, mode, history) ==
    IF history = <<>> THEN heap
    ELSE Replay(IndexFieldTokens(heap, mode, Head(history).fieldTokens, Head(history).uid),
                mode, Tail(history))

HeapUnder(mode) ==
    Replay([map |-> EmptyObject, proto |-> EmptyObject], mode, SetToSeq(calls))

\* the uids a query finds on the engine that was given the same calls under `mode`
FoundUnder(mode, tokens) == Range(SearchIndexSearch(HeapUnder(mode), tokens))

\* C27: index modes are ordered by inclusiveness.  For the same indexDocument
\* calls, tokenize pattern and case flag, and the same non-empty query, the
\* uids found under EXACT_WORDS are among those found under PREFIXES, which are
\* among those found under ALL_SUBSTRINGS.
C27_ModesOrdered ==
    /\ HeapUnder(indexMode) = Heap
    /\ \A q \in QueryInputs \ {""} :
       \A tokens \in {QueryTokens(q)} :
          ~SearchIndexSearchThrows(Heap, tokens) =>
             /\ FoundUnder(EXACT_WORDS, tokens) \subseteq FoundUnder(PREFIXES, tokens)
             /\ FoundUnder(PREFIXES, tokens) \subseteq FoundUnder(ALL_SUBSTRINGS, tokens)

\* both inclusions are strict: 'a' finds nothing under EXACT_WORDS and a uid
\* under PREFIXES, 'b' finds nothing under PREFIXES and a uid under ALL_SUBSTRINGS
C27_StrictlyOrdered ==
    /\ FoundUnder(EXACT_WORDS, <<"a">>) = {}
    /\ FoundUnder(PREFIXES, <<"a">>) # {}
    /\ FoundUnder(PREFIXES, <<"b">>) = {}
    /\ FoundUnder(ALL_SUBSTRINGS, <<"b">>) # {}


\* C28: in every reachable state and for every query with a token, each uid the
\* search returns is also an element of the result of search(''), compared as
\* values, whatever values were passed to indexDocument as uids.
C28_FoundAmongAllUids ==
    \A q \in QueryInputs \ {""} :
    \A tokens \in {QueryTokens(q)} :
        (tokens # <<>> /\ ~SearchIndexSearchThrows(Heap, tokens)) =>
            Range(SearchIndexSearch(Heap, tokens)) \subseteq Range(ObjectKeys(uids))


\* the calls whose promises a step settles
NewlySettledIds == {settled'[k].callbackId : k \in (Len(settled) + 1)..Len(settled')}

\* C29: between handlers, callbackQueue and callbackIdMap hold the same pending
\* calls: a callbackId is a key of the map exactly if it is in the queue, no id
\* is in the queue twice, and the step that settles a promise is the step that
\* removes its entry from both the queue and the map.
C29_QueueAndMapAgree ==
    /\ [](/\ DOMAIN callbackIdMap = Range(callbackQueue)
          /\ NoDuplicates(callbackQueue))
    /\ [][/\ DOMAIN callbackIdMap \ DOMAIN callbackIdMap' = NewlySettledIds
          /\ Range(callbackQueue) \ Range(callbackQueue') = NewlySettledIds]_vars

\* a promise has been settled while a later call is still pending
C29_SettledWithOnePending ==
    /\ Len(settled) = 1
    /\ Len(callbackQueue) = 1
    /\ DOMAIN callbackIdMap = {2}


\* another SearchUtility of the same realm, to which no document was given:
\* its own token-to-uid map is empty, and its objects inherit from the one
\* Object.prototype
OtherInstance == [map |-> EmptyObject, proto |-> objectPrototype]

\* C30: engine instances are isolated.  Whatever was indexed on this instance,
\* tokens and uids named like built-in properties included, a search on
\* another instance that was given no document finds nothing, as it did
\* before; and on this instance a token named like a built-in property finds
\* only uids indexed with it.  (The setIndexMode guard of the other instance
\* reads the own keys of its own _uids, which no other instance can write.)
C30_InstancesIsolated ==
    /\ \A q \in QueryInputs \ {""} :
       \A tokens \in {QueryTokens(q)} :
           ~SearchIndexSearchThrows(OtherInstance, tokens) =>
               SearchIndexSearch(OtherInstance, tokens) = <<>>
    /\ \A token \in {"__proto__", "constructor"} :
           ~SearchIndexSearchThrows(Heap, <<token>>) =>
               Range(SearchIndexSearch(Heap, <<token>>))
                   \subseteq {u \in CalledUids : token \in ExpandedFor(u)}

====
